---- MODULE Spec2Model ----
(***************************************************************************)
(* The resilient connection-pool manager of src/api/main.py: the class     *)
(* DatabasePool, the context manager get_db_connection and log_prediction. *)
(*                                                                         *)
(* Request-handling threads (Callers) call initialize(), log_prediction(), *)
(* is_ready() and close() on the one process-wide DatabasePool; the thread *)
(* started by initialize() runs _background_retry.  Every thread executes  *)
(* its Python code one shared-memory access at a time: pc[t] is the        *)
(* statement it is about to execute and stack[t] the statements its        *)
(* callers resume at.  threading.Lock is not reentrant: acquiring it is    *)
(* enabled only while nobody (the acquirer included) holds it.             *)
(*                                                                         *)
(* psycopg2's ThreadedConnectionPool is modelled by what the wrapper can   *)
(* observe of it: the constructor connects (raises when the store is       *)
(* down), getconn raises PoolError on a closed or exhausted pool, putconn  *)
(* raises PoolError on a closed pool or on a connection the pool did not   *)
(* lease, closeall raises PoolError on a pool that is already closed.      *)
(***************************************************************************)
EXTENDS Integers, Sequences, FiniteSets, TLC

\* ---- bounds of the model ------------------------------------------------
NumCallers == 2     \* request-handling threads
MaxPools == 2       \* pool objects constructed over the lifetime of the process
MaxConn == 1        \* maxconn of a pool, scaled down: fewer than the callers
max_retries == 2    \* _background_retry's max_retries, scaled down
MaxOps == 3         \* operations the callers start, all together
MaxChanges == 2     \* times the store goes down or comes back

Callers == 1..NumCallers
Retry == 0                      \* the thread running _background_retry
Threads == Callers \cup {Retry}
NoThread == -1
None == 0                       \* Python's None, for _pool and for connections
Pools == 1..MaxPools            \* identities of ThreadedConnectionPool objects

VARIABLES
    database_url,     \* self.database_url is set (truthy)
    pool,             \* self._pool: None or a pool object
    initialized,      \* self._initialized
    init_attempted,   \* self._init_attempted
    lock,             \* holder of self._lock, or NoThread
    storeUp,          \* the store accepts connections and statements right now
    created,          \* pool objects constructed so far (the last one is `created`)
    closed,           \* closed[p]: closeall() has run on pool p
    used,             \* used[p]: connections of pool p currently leased
    ensured,          \* pools through which CREATE TABLE IF NOT EXISTS was committed
    pc,               \* pc[t]: the statement thread t executes next
    stack,            \* stack[t]: where t's callers resume, innermost first
    loc,              \* loc[t]: t's return registers and local variables
    retry_count,      \* local retry_count of _background_retry
    retryStarts,      \* retry threads started so far
    call,             \* call[t]: the caller's current or last operation
    ops,              \* operations started so far
    changes,          \* store changes so far
    ctorVal,          \* what the initialize() call that constructs returned
    concRets          \* what other initialize() calls returned meanwhile

vars == <<database_url, pool, initialized, init_attempted, lock, storeUp,
          created, closed, used, ensured, pc, stack, loc, retry_count,
          retryStarts, call, ops, changes, ctorVal, concRets>>

flags == <<initialized, init_attempted>>
objs == <<created, closed, used, ensured>>
retry == <<retry_count, retryStarts>>
env == <<database_url, storeUp, ops, changes>>
hist == <<ctorVal, concRets>>

\* retb: boolean a callee returned; retc: connection get_connection()
\* returned; conn: local conn of is_ready / get_db_connection; tconn: local
\* conn of _init_table
NoLocals == [retb |-> FALSE, retc |-> None, conn |-> None, tconn |-> None]

\* op: the operation; val: "pending", or what it returned, or "raised"
NoCall == [op |-> "none", val |-> "None"]

BoolStr(b) == IF b THEN "True" ELSE "False"

\* DatabasePool.__init__ ; db_pool = DatabasePool(DATABASE_URL)
Init ==
    /\ database_url \in BOOLEAN
    /\ storeUp \in BOOLEAN
    /\ pool = None
    /\ initialized = FALSE
    /\ init_attempted = FALSE
    /\ lock = NoThread
    /\ created = 0
    /\ closed = [p \in Pools |-> FALSE]
    /\ used = [p \in Pools |-> 0]
    /\ ensured = {}
    /\ pc = [t \in Threads |-> IF t = Retry THEN "br_none" ELSE "idle"]
    /\ stack = [t \in Threads |-> <<>>]
    /\ loc = [t \in Threads |-> NoLocals]
    /\ retry_count = 0
    /\ retryStarts = 0
    /\ call = [t \in Callers |-> NoCall]
    /\ ops = 0
    /\ changes = 0
    /\ ctorVal = "none"
    /\ concRets = {}

\* ---- control transfer ---------------------------------------------------
Goto(t, l) == pc' = [pc EXCEPT ![t] = l] /\ UNCHANGED stack

\* call a method: run from `entry`, resume the callers at `conts`
Call(t, entry, conts) ==
    /\ pc' = [pc EXCEPT ![t] = entry]
    /\ stack' = [stack EXCEPT ![t] = conts \o @]

\* return to the calling method
Pop(t) ==
    /\ pc' = [pc EXCEPT ![t] = Head(stack[t])]
    /\ stack' = [stack EXCEPT ![t] = Tail(@)]

\* set locals of thread t
Set(t, new) == loc' = [loc EXCEPT ![t] = new]

\* the caller's operation returns v (or raises: v = "raised")
Finish(t, v) ==
    /\ pc' = [pc EXCEPT ![t] = "idle"]
    /\ call' = [call EXCEPT ![t] = [@ EXCEPT !.val = v]]
    /\ Set(t, NoLocals)
    /\ UNCHANGED stack

\* ---- psycopg2.pool.ThreadedConnectionPool, as the wrapper sees it -------
\* a statement (cursor, execute, commit) on a connection leased from pool c
\* can succeed only while the store is up and closeall() has not closed it
CanExecute(c) == storeUp /\ ~closed[c]

\* getconn() on the pool that _pool holds now can lease a connection
CanLease == pool # None /\ ~closed[pool] /\ used[pool] < MaxConn

\* self._pool.putconn(c) inside return_connection: the lease count of the
\* pool drops only when the current pool is the open pool that leased c
\* (psycopg2 raises PoolError otherwise, None raises AttributeError;
\* return_connection logs either and goes on)
Released(c) == pool # None /\ c # None /\ pool = c /\ ~closed[c] /\ used[c] > 0

\* DatabasePool.return_connection(conn)
return_connection(c) ==
    used' = IF Released(c) THEN [used EXCEPT ![c] = @ - 1] ELSE used

\* ---- DatabasePool._create_pool ------------------------------------------
\* line 97: the constructor connects; the new object is stored in _pool, or
\* the constructor raises and control moves to the except branch
cp_try(t) ==
    /\ pc[t] = "cp_try"
    /\ IF storeUp
       THEN /\ created < MaxPools
            /\ created' = created + 1
            /\ pool' = created + 1
            /\ Goto(t, "cp_ok")
       ELSE /\ Goto(t, "cp_fail")
            /\ UNCHANGED <<created, pool>>
    /\ UNCHANGED <<env, flags, lock, closed, used, ensured, loc, retry, call,
                   hist>>

\* lines 100-102: self._initialized = True; return True
cp_ok(t) ==
    /\ pc[t] = "cp_ok"
    /\ initialized' = TRUE
    /\ Set(t, [loc[t] EXCEPT !.retb = TRUE])
    /\ Pop(t)
    /\ UNCHANGED <<env, pool, init_attempted, lock, objs, retry, call, hist>>

\* line 105: self._pool = None
cp_fail(t) ==
    /\ pc[t] = "cp_fail"
    /\ pool' = None
    /\ Goto(t, "cp_fail2")
    /\ UNCHANGED <<env, flags, lock, objs, loc, retry, call, hist>>

\* lines 106-107: self._initialized = False; return False
cp_fail2(t) ==
    /\ pc[t] = "cp_fail2"
    /\ initialized' = FALSE
    /\ Set(t, [loc[t] EXCEPT !.retb = FALSE])
    /\ Pop(t)
    /\ UNCHANGED <<env, pool, init_attempted, lock, objs, retry, call, hist>>

\* ---- DatabasePool.initialize --------------------------------------------
\* initialize() returns b: to the caller, or to get_connection (line 186),
\* which drops the value
in_return(t, b) ==
    IF stack[t] = <<>>
    THEN Finish(t, BoolStr(b))
    ELSE Pop(t) /\ UNCHANGED <<call, loc>>

\* in_lock without the test of _init_attempted on line 115: every caller
\* constructs
in_lock_NoAttemptTest(t) ==
    /\ pc[t] = "in_lock"
    /\ lock = NoThread
    /\ init_attempted' = TRUE
    /\ IF database_url
       THEN /\ Call(t, "cp_try", <<"in_after">>)
            /\ ctorVal' = "pending"
            /\ UNCHANGED <<call, loc>>
       ELSE /\ in_return(t, initialized)
            /\ ctorVal' = BoolStr(initialized)
    /\ UNCHANGED <<env, pool, initialized, lock, objs, retry, concRets>>

\* lines 114-120 and 130-133: under the lock a later caller returns the
\* current _initialized and the first one sets _init_attempted; the lock is
\* released before line 119, where the first caller constructs if the
\* endpoint is set
in_lock(t) ==
    /\ pc[t] = "in_lock"
    /\ lock = NoThread
    /\ IF init_attempted
       THEN /\ in_return(t, initialized)
            /\ concRets' = IF ctorVal = "pending"
                           THEN concRets \cup {BoolStr(initialized)}
                           ELSE concRets
            /\ UNCHANGED <<init_attempted, ctorVal>>
       ELSE /\ init_attempted' = TRUE
            /\ IF database_url
               THEN /\ Call(t, "cp_try", <<"in_after">>)
                    /\ ctorVal' = "pending"
                    /\ UNCHANGED <<call, loc>>
               ELSE /\ in_return(t, initialized)
                    /\ ctorVal' = BoolStr(initialized)
            /\ UNCHANGED concRets
    /\ UNCHANGED <<env, pool, initialized, lock, objs, retry>>

\* lines 121-129 and 133: after a failed construction start the retry thread;
\* return self._initialized
in_after(t) ==
    /\ pc[t] = "in_after"
    /\ IF loc[t].retb
       THEN /\ in_return(t, initialized)
            /\ UNCHANGED retry
       ELSE /\ pc' = [pc EXCEPT ![Retry] = "br_while",
                                ![t] = IF stack[t] = <<>> THEN "idle"
                                       ELSE Head(stack[t])]
            /\ stack' = [stack EXCEPT ![t] = IF @ = <<>> THEN @ ELSE Tail(@)]
            /\ call' = IF stack[t] = <<>>
                       THEN [call EXCEPT ![t] =
                               [@ EXCEPT !.val = BoolStr(initialized)]]
                       ELSE call
            /\ Set(t, IF stack[t] = <<>> THEN NoLocals
                      ELSE [loc[t] EXCEPT !.retb = FALSE])
            /\ retry_count' = 0
            /\ retryStarts' = retryStarts + 1
    /\ ctorVal' = BoolStr(initialized)
    /\ UNCHANGED <<env, pool, flags, lock, objs, concRets>>

\* ---- DatabasePool._background_retry -------------------------------------
\* br_while that gives up without an attempt
br_while_NoAttempt(t) ==
    /\ t = Retry
    /\ pc[t] = "br_while"
    /\ Goto(t, "br_done")
    /\ UNCHANGED <<env, pool, flags, lock, objs, loc, retry, call, hist>>

\* lines 141-146 and 153-154: the loop test, then the sleep and the count
br_while(t) ==
    /\ t = Retry
    /\ pc[t] = "br_while"
    /\ IF ~initialized /\ retry_count < max_retries
       THEN /\ retry_count' = retry_count + 1
            /\ Goto(t, "br_lock")
       ELSE /\ Goto(t, "br_done")
            /\ UNCHANGED retry_count
    /\ UNCHANGED <<env, pool, flags, lock, objs, loc, retryStarts, call, hist>>

\* lines 148-149: with self._lock: self._create_pool()
br_lock(t) ==
    /\ t = Retry
    /\ pc[t] = "br_lock"
    /\ lock = NoThread
    /\ lock' = t
    /\ Call(t, "cp_try", <<"br_after">>)
    /\ UNCHANGED <<env, pool, flags, objs, loc, retry, call, hist>>

\* br_after that goes back to the sleep without leaving the with block
br_after_KeepsLock(t) ==
    /\ t = Retry
    /\ pc[t] = "br_after"
    /\ IF loc[t].retb
       THEN Call(t, "gc_185", <<"it_conn", "br_unlock">>)
       ELSE Goto(t, "br_while")
    /\ Set(t, [loc[t] EXCEPT !.retb = FALSE])
    /\ UNCHANGED <<env, pool, flags, lock, objs, retry, call, hist>>

\* lines 149-150 and 159: on success run _init_table, which starts with
\* get_connection(); else leave the with block and loop
br_after(t) ==
    /\ t = Retry
    /\ pc[t] = "br_after"
    /\ IF loc[t].retb
       THEN /\ Call(t, "gc_185", <<"it_conn", "br_unlock">>)
            /\ UNCHANGED lock
       ELSE /\ lock' = NoThread
            /\ Goto(t, "br_while")
    /\ Set(t, [loc[t] EXCEPT !.retb = FALSE])
    /\ UNCHANGED <<env, pool, flags, objs, retry, call, hist>>

\* line 151: return, leaving the with block
br_unlock(t) ==
    /\ t = Retry
    /\ pc[t] = "br_unlock"
    /\ lock' = NoThread
    /\ Goto(t, "br_done")
    /\ UNCHANGED <<env, pool, flags, objs, loc, retry, call, hist>>

\* ---- DatabasePool._init_table -------------------------------------------
\* lines 160-173 and 176-177: without a connection return; else CREATE TABLE
\* IF NOT EXISTS and commit, or the statement raises and the except branch
\* logs it and returns, line 174 skipped
it_conn(t) ==
    /\ pc[t] = "it_conn"
    /\ \/ /\ loc[t].retc = None
          /\ Pop(t)
          /\ UNCHANGED <<ensured, loc>>
       \/ /\ loc[t].retc # None
          /\ CanExecute(loc[t].retc)
          /\ ensured' = ensured \cup {loc[t].retc}
          /\ Set(t, [loc[t] EXCEPT !.tconn = loc[t].retc, !.retc = None])
          /\ Goto(t, "it_rel")
       \/ /\ loc[t].retc # None
          /\ Set(t, [loc[t] EXCEPT !.retc = None])
          /\ Pop(t)
          /\ UNCHANGED ensured
    /\ UNCHANGED <<env, pool, flags, lock, created, closed, used, retry, call,
                   hist>>

\* lines 174-175: self.return_connection(conn)
it_rel(t) ==
    /\ pc[t] = "it_rel"
    /\ return_connection(loc[t].tconn)
    /\ Set(t, [loc[t] EXCEPT !.tconn = None])
    /\ Pop(t)
    /\ UNCHANGED <<env, pool, flags, lock, created, closed, ensured, retry,
                   call, hist>>

\* ---- DatabasePool.get_connection ----------------------------------------
\* get_connection() returns c to the method that called it
gc_return(t, c) ==
    /\ Set(t, [loc[t] EXCEPT !.retc = c])
    /\ Pop(t)

\* lines 185-189: first use calls initialize(); otherwise on to the test of
\* line 189
gc_185(t) ==
    /\ pc[t] = "gc_185"
    /\ IF ~initialized /\ ~init_attempted
       THEN Call(t, "in_lock", <<"gc_189">>)
       ELSE Goto(t, IF ~initialized THEN "gc_lock" ELSE "gc_195")
    /\ UNCHANGED <<env, pool, flags, lock, objs, loc, retry, call, hist>>

\* line 189, after initialize(): if not self._initialized
gc_189(t) ==
    /\ pc[t] = "gc_189"
    /\ Goto(t, IF ~initialized THEN "gc_lock" ELSE "gc_195")
    /\ UNCHANGED <<env, pool, flags, lock, objs, loc, retry, call, hist>>

\* gc_lock without the endpoint test of line 191
gc_lock_NoUrlTest(t) ==
    /\ pc[t] = "gc_lock"
    /\ lock = NoThread
    /\ IF ~initialized
       THEN /\ lock' = t
            /\ Call(t, "cp_try", <<"gc_after">>)
       ELSE /\ Goto(t, "gc_195")
            /\ UNCHANGED lock
    /\ UNCHANGED <<env, pool, flags, objs, loc, retry, call, hist>>

\* lines 190-192: with self._lock: the lazy construction when still not
\* initialized and the endpoint is set, else straight out of the with block
gc_lock(t) ==
    /\ pc[t] = "gc_lock"
    /\ lock = NoThread
    /\ IF ~initialized /\ database_url
       THEN /\ lock' = t
            /\ Call(t, "cp_try", <<"gc_after">>)
       ELSE /\ Goto(t, "gc_195")
            /\ UNCHANGED lock
    /\ UNCHANGED <<env, pool, flags, objs, loc, retry, call, hist>>

\* lines 192-193 and 159: on success run _init_table, which starts with
\* get_connection(); else leave the with block
gc_after(t) ==
    /\ pc[t] = "gc_after"
    /\ IF loc[t].retb
       THEN /\ Call(t, "gc_185", <<"it_conn", "gc_unlock">>)
            /\ UNCHANGED lock
       ELSE /\ lock' = NoThread
            /\ Goto(t, "gc_195")
    /\ Set(t, [loc[t] EXCEPT !.retb = FALSE])
    /\ UNCHANGED <<env, pool, flags, objs, retry, call, hist>>

\* leaving the with block of line 190 after _init_table
gc_unlock(t) ==
    /\ pc[t] = "gc_unlock"
    /\ lock' = NoThread
    /\ Goto(t, "gc_195")
    /\ UNCHANGED <<env, pool, flags, objs, loc, retry, call, hist>>

\* line 195, left operand: if self._pool ...
gc_195(t) ==
    /\ pc[t] = "gc_195"
    /\ IF pool # None
       THEN Goto(t, "gc_195b") /\ UNCHANGED loc
       ELSE gc_return(t, None)
    /\ UNCHANGED <<env, pool, flags, lock, objs, retry, call, hist>>

\* line 195, right operand: ... and self._initialized
gc_195b(t) ==
    /\ pc[t] = "gc_195b"
    /\ IF initialized
       THEN Goto(t, "gc_197") /\ UNCHANGED loc
       ELSE gc_return(t, None)
    /\ UNCHANGED <<env, pool, flags, lock, objs, retry, call, hist>>

\* lines 196-200: return self._pool.getconn(), or None when that raises
\* (AttributeError on None, PoolError on a closed or exhausted pool, a driver
\* error when a new connection is needed while the store is down)
gc_197(t) ==
    /\ pc[t] = "gc_197"
    /\ \/ /\ CanLease
          /\ used' = [used EXCEPT ![pool] = @ + 1]
          /\ gc_return(t, pool)
       \/ /\ ~CanLease \/ ~storeUp
          /\ gc_return(t, None)
          /\ UNCHANGED used
    /\ UNCHANGED <<env, pool, flags, lock, created, closed, ensured, retry,
                   call, hist>>

\* ---- DatabasePool.is_ready ----------------------------------------------
\* lines 213-216
ir_213(t) ==
    /\ pc[t] = "ir_213"
    /\ IF ~initialized
       THEN Finish(t, "False")
       ELSE Call(t, "gc_185", <<"ir_conn">>) /\ UNCHANGED <<call, loc>>
    /\ UNCHANGED <<env, pool, flags, lock, objs, retry, hist>>

\* lines 217-221 and 224: without a connection return False; else SELECT 1
\* succeeds or raises
ir_conn(t) ==
    /\ pc[t] = "ir_conn"
    /\ \/ /\ loc[t].retc = None
          /\ Finish(t, "False")
       \/ /\ loc[t].retc # None
          /\ \/ /\ CanExecute(loc[t].retc)
                /\ Set(t, [NoLocals EXCEPT !.conn = loc[t].retc, !.retb = TRUE])
             \/ Set(t, [NoLocals EXCEPT !.conn = loc[t].retc, !.retb = FALSE])
          /\ Goto(t, "ir_rel")
          /\ UNCHANGED call
    /\ UNCHANGED <<env, pool, flags, lock, objs, retry, hist>>

\* lines 222-223 and 225-226: self.return_connection(conn), then return True
\* after the SELECT and False after the exception
ir_rel(t) ==
    /\ pc[t] = "ir_rel"
    /\ return_connection(loc[t].conn)
    /\ Finish(t, BoolStr(loc[t].retb))
    /\ UNCHANGED <<env, pool, flags, lock, created, closed, ensured, retry,
                   hist>>

\* ---- log_prediction, through get_db_connection --------------------------
\* lines 265-276 and 277-278: without a connection return False; else the
\* INSERT and the commit succeed, or one of them raises
lp_conn(t) ==
    /\ pc[t] = "lp_conn"
    /\ \/ /\ loc[t].retc = None
          /\ Finish(t, "False")
       \/ /\ loc[t].retc # None
          /\ \/ /\ CanExecute(loc[t].retc)
                /\ Set(t, [NoLocals EXCEPT !.conn = loc[t].retc, !.retb = TRUE])
             \/ Set(t, [NoLocals EXCEPT !.conn = loc[t].retc, !.retb = FALSE])
          /\ Goto(t, "lp_rel")
          /\ UNCHANGED call
    /\ UNCHANGED <<env, pool, flags, lock, objs, retry, hist>>

\* lines 247-249 (the finally of get_db_connection), then return True (line
\* 276) after the commit and False (line 279) after the exception
lp_rel(t) ==
    /\ pc[t] = "lp_rel"
    /\ return_connection(loc[t].conn)
    /\ Finish(t, BoolStr(loc[t].retb))
    /\ UNCHANGED <<env, pool, flags, lock, created, closed, ensured, retry,
                   hist>>

\* ---- DatabasePool.close -------------------------------------------------
\* line 231: if self._pool
cl_231(t) ==
    /\ pc[t] = "cl_231"
    /\ IF pool # None
       THEN Goto(t, "cl_232") /\ UNCHANGED <<call, loc>>
       ELSE Finish(t, "None")
    /\ UNCHANGED <<env, pool, flags, lock, objs, retry, hist>>

\* lines 232-233: self._pool.closeall(), which raises on None and on a pool
\* that is closed already; close() catches nothing
cl_232(t) ==
    /\ pc[t] = "cl_232"
    /\ IF pool # None /\ ~closed[pool]
       THEN /\ closed' = [closed EXCEPT ![pool] = TRUE]
            /\ Finish(t, "None")
       ELSE /\ Finish(t, "raised")
            /\ UNCHANGED closed
    /\ UNCHANGED <<env, pool, flags, lock, created, used, ensured, retry, hist>>

\* ---- the callers' operations --------------------------------------------
Begin(t, o) ==
    /\ pc[t] = "idle"
    /\ ops < MaxOps
    /\ ops' = ops + 1
    /\ call' = [call EXCEPT ![t] = [NoCall EXCEPT !.op = o, !.val = "pending"]]
    /\ UNCHANGED <<database_url, storeUp, changes, pool, flags, lock, objs,
                   loc, retry, hist>>

\* db_pool.initialize()
StartInitialize(t) == Begin(t, "initialize") /\ Goto(t, "in_lock")

\* log_prediction(...): with get_db_connection() as conn, line 244
StartLogPrediction(t) ==
    Begin(t, "log_prediction") /\ Call(t, "gc_185", <<"lp_conn">>)

\* db_pool.is_ready()
StartIsReady(t) == Begin(t, "is_ready") /\ Goto(t, "ir_213")

\* db_pool.close()
StartClose(t) == Begin(t, "close") /\ Goto(t, "cl_231")

\* ---- the store ----------------------------------------------------------
\* the store goes down or comes back
StoreChange ==
    /\ changes < MaxChanges
    /\ changes' = changes + 1
    /\ storeUp' = ~storeUp
    /\ UNCHANGED <<database_url, ops, pool, flags, lock, objs, pc, stack, loc,
                   retry, call, hist>>

Next ==
    \/ StoreChange
    \/ \E t \in Callers :
         \/ StartInitialize(t)
         \/ StartLogPrediction(t)
         \/ StartIsReady(t)
         \/ StartClose(t)
         \/ ir_213(t) \/ ir_conn(t) \/ ir_rel(t)
         \/ lp_conn(t) \/ lp_rel(t)
         \/ cl_231(t) \/ cl_232(t)
    \/ \E t \in Threads :
         \/ in_lock(t) \/ in_after(t)
         \/ cp_try(t) \/ cp_ok(t) \/ cp_fail(t) \/ cp_fail2(t)
         \/ it_conn(t) \/ it_rel(t)
         \/ gc_185(t) \/ gc_189(t) \/ gc_lock(t) \/ gc_after(t) \/ gc_unlock(t)
         \/ gc_195(t) \/ gc_195b(t) \/ gc_197(t)
         \/ br_while(t) \/ br_lock(t) \/ br_after(t) \/ br_unlock(t)

Spec == Init /\ [][Next]_vars

\* ---- recovery after a failed startup ------------------------------------
\* the state after lines 237-238 ran at import time with the endpoint set and
\* the store down: initialize() failed, started the retry thread and
\* returned False; no request has been served yet
InitFailedStartup ==
    /\ database_url = TRUE
    /\ storeUp = FALSE
    /\ pool = None
    /\ initialized = FALSE
    /\ init_attempted = TRUE
    /\ lock = NoThread
    /\ created = 0
    /\ closed = [p \in Pools |-> FALSE]
    /\ used = [p \in Pools |-> 0]
    /\ ensured = {}
    /\ pc = [t \in Threads |-> IF t = Retry THEN "br_while" ELSE "idle"]
    /\ stack = [t \in Threads |-> <<>>]
    /\ loc = [t \in Threads |-> NoLocals]
    /\ retry_count = 0
    /\ retryStarts = 1
    /\ call = [t \in Callers |-> NoCall]
    /\ ops = 0
    /\ changes = 0
    /\ ctorVal = "False"
    /\ concRets = {}

\* the store becomes available, and stays so
StoreRecovers ==
    /\ ~storeUp
    /\ storeUp' = TRUE
    /\ UNCHANGED <<database_url, ops, changes, pool, flags, lock, objs, pc,
                   stack, loc, retry, call, hist>>

\* a request thread starts an operation; requests keep coming
Request(t, o) ==
    /\ pc[t] = "idle"
    /\ call' = [call EXCEPT ![t] = [NoCall EXCEPT !.op = o, !.val = "pending"]]
    /\ UNCHANGED <<env, pool, flags, lock, objs, loc, retry, hist>>

\* /predict -> log_prediction(...)
RequestLogPrediction(t) ==
    Request(t, "log_prediction") /\ Call(t, "gc_185", <<"lp_conn">>)

\* /ready -> db_pool.is_ready()
RequestIsReady(t) == Request(t, "is_ready") /\ Goto(t, "ir_213")

\* on an available store and an open pool the statements of _init_table,
\* is_ready and log_prediction succeed
StatementsSucceed(t) ==
    (loc[t].retc # None /\ CanExecute(loc[t].retc)) =>
        /\ pc[t] \in {"ir_conn", "lp_conn"} => loc'[t].retb
        /\ pc[t] = "it_conn" => pc'[t] = "it_rel"

\* a step inside _create_pool, _init_table or get_connection
PoolStep(t) ==
    \/ cp_try(t) \/ cp_ok(t) \/ cp_fail(t) \/ cp_fail2(t)
    \/ it_conn(t) \/ it_rel(t)
    \/ gc_185(t) \/ gc_lock(t) \/ gc_after(t) \/ gc_unlock(t)
    \/ gc_195(t) \/ gc_195b(t) \/ gc_197(t)

\* a step of a request thread inside its operation
RequestStep(t) ==
    /\ \/ ir_213(t) \/ ir_conn(t) \/ ir_rel(t)
       \/ lp_conn(t) \/ lp_rel(t)
       \/ PoolStep(t)
    /\ StatementsSucceed(t)

\* a step of the retry thread
RetryStep ==
    /\ \/ br_while(Retry) \/ br_lock(Retry) \/ br_after(Retry)
       \/ br_unlock(Retry)
       \/ PoolStep(Retry)
    /\ StatementsSucceed(Retry)

RecoveryNext ==
    \/ StoreRecovers
    \/ RetryStep
    \/ \E t \in Callers :
         \/ RequestLogPrediction(t)
         \/ RequestIsReady(t)
         \/ RequestStep(t)

\* threads are scheduled fairly: a thread that can take a step takes one
Recovery ==
    /\ InitFailedStartup
    /\ [][RecoveryNext]_vars
    /\ WF_vars(RetryStep)
    /\ \A t \in Callers : WF_vars(RequestStep(t))

\* ---- properties ----------------------------------------------------------
Range(q) == {q[i] : i \in DOMAIN q}

\* thread t is executing _create_pool
InCreatePool(t) == pc[t] \in {"cp_try", "cp_ok", "cp_fail", "cp_fail2"}

\* thread t is inside the part of initialize() that constructs (lines 119-133)
InInitializeConstruction(t) ==
    pc[t] = "in_after" \/ "in_after" \in Range(stack[t])

\* thread t is waiting for self._lock
AtLock(t) == pc[t] \in {"in_lock", "gc_lock", "br_lock"}

\* no caller is inside an operation and the retry thread is not running
Quiescent ==
    /\ \A t \in Callers : pc[t] = "idle"
    /\ pc[Retry] \in {"br_none", "br_done"}

\* C1: at most one execution of _create_pool is in progress at any instant,
\* whichever of initialize(), _background_retry and get_connection() runs it.
C1_OneConstructionAtATime ==
    Cardinality({t \in Threads : InCreatePool(t)}) <= 1

\* C2: over the lifetime of the DatabasePool at most one pool object is
\* constructed and installed in _pool.
C2_AtMostOnePool == created <= 1

\* C3: of the concurrent initialize() calls one performs the construction,
\* and every call that returns while that one is in progress returns the
\* boolean that the constructing call returns.
C3_SameResult ==
    /\ Cardinality({t \in Threads : InInitializeConstruction(t)}) <= 1
    /\ ctorVal \in {"True", "False"} => concRets \subseteq {ctorVal}

\* C4: whenever the status is Ready (_initialized is true, with a pool in
\* _pool), the CREATE TABLE IF NOT EXISTS of _init_table has been executed
\* through that pool.
C4_ReadyImpliesSchema ==
    (initialized /\ pool # None) => pool \in ensured

\* C5: no thread tries to take _lock while it holds it already (such a
\* thread, and every get_connection() behind it, would wait forever).
C5_NoSelfDeadlock == \A t \in Threads : ~(AtLock(t) /\ lock = t)

\* C6: get_connection() never raises, and it returns a connection (line 197)
\* only when a pool exists and the status is Ready.
C6_LeaseOnlyWhenReady ==
    [][\A t \in Threads :
         (pc[t] = "gc_197" /\ pc'[t] # "gc_197" /\ loc'[t].retc # None)
            => (pool # None /\ initialized)]_vars

\* C7: every lease is matched by a release: once every operation that leased
\* a connection has completed, no connection of an open pool is leased.
C7_LeasesReturned ==
    Quiescent => \A p \in Pools : ~closed[p] => used[p] = 0

\* C8: once the status is Ready (_initialized true) it stays Ready: no later
\* construction attempt resets _initialized to false or _pool to None.
C8_ReadyIsStable ==
    [][initialized => (initialized' /\ (pool # None => pool' # None))]_vars

\* C9: close() never raises: not without a pool, not on a live pool, not
\* when called again after a previous close().
C9_CloseNeverRaises ==
    \A t \in Callers : call[t].op = "close" => call[t].val # "raised"

\* C10: log_prediction() never raises and returns a boolean: False without a
\* connection, False when the INSERT or the commit fails, True only after
\* the INSERT was committed; the connection it leased has been released to
\* its pool when it returns.
C10_LogPrediction ==
    [][\A t \in Callers :
         /\ call'[t].op = "log_prediction"
               => call'[t].val \in {"pending", "True", "False"}
         /\ (pc[t] = "lp_conn" /\ pc'[t] = "idle") => call'[t].val = "False"
         /\ (pc[t] = "lp_rel" /\ pc'[t] = "idle")
               => /\ call'[t].val = BoolStr(loc[t].retb)
                  /\ Released(loc[t].conn) \/ closed[loc[t].conn]]_vars

\* C11: with the endpoint (database_url) unset no pool construction is ever
\* attempted, no retry thread is started, get_connection() returns None,
\* log_prediction() and is_ready() return False, and nothing raises.
C11_EndpointUnset ==
    ~database_url =>
        /\ created = 0 /\ pool = None /\ ~initialized
        /\ \A t \in Threads : ~InCreatePool(t)
        /\ retryStarts = 0 /\ pc[Retry] = "br_none"
        /\ \A t \in Threads : loc[t].retc = None /\ loc[t].conn = None
        /\ \A t \in Callers :
              /\ call[t].val # "raised"
              /\ call[t].op \in {"log_prediction", "is_ready"}
                    => call[t].val \in {"pending", "False"}

\* C11 witness: with the endpoint unset, initialize() has run and both a
\* log_prediction() and an is_ready() have returned False
C11_Witness ==
    /\ ~database_url
    /\ init_attempted
    /\ \E t \in Callers : call[t] = [op |-> "log_prediction", val |-> "False"]
    /\ \E t \in Callers : call[t] = [op |-> "is_ready", val |-> "False"]

\* C12: the retry thread is started at most once, by initialize() and only
\* after its construction failed: a step that starts a retry thread is the
\* first such step and is taken by a thread on line 122 of initialize()
\* whose _create_pool() returned False.
C12_RetryStartedOnce ==
    [][retryStarts' # retryStarts =>
         /\ retryStarts = 0 /\ retryStarts' = 1
         /\ pc[Retry] = "br_none"
         /\ \E t \in Threads :
               /\ pc[t] = "in_after" /\ pc'[t] # "in_after"
               /\ ~loc[t].retb]_vars

\* C12 witness: the retry thread was started, and afterwards both callers
\* completed an initialize() call
C12_Witness ==
    /\ retryStarts = 1
    /\ pc[Retry] # "br_none"
    /\ \A t \in Callers : call[t].op = "initialize" /\ call[t].val # "pending"

\* C13: the retry thread makes at most max_retries attempts and always
\* terminates: its count never passes the bound, and when it waits for _lock
\* (line 148) the holder is not a thread that itself waits for _lock, which
\* would keep the retry thread on line 148 for ever.
C13_RetryTerminates ==
    /\ retry_count <= max_retries
    /\ ~(pc[Retry] = "br_lock" /\ \E t \in Threads : lock = t /\ AtLock(t))

\* the store is available while the retry thread still has an attempt left
StoreBackInTime ==
    storeUp /\ pc[Retry] = "br_while" /\ retry_count < max_retries

\* the is_ready() call of thread t returns v in this step
IsReadyReturns(t, v) ==
    /\ call[t].op = "is_ready" /\ call[t].val = "pending"
    /\ call'[t].val = v

\* get_connection() called by thread t returns None from line 197-200
LeaseFails(t) ==
    pc[t] = "gc_197" /\ pc'[t] # "gc_197" /\ loc'[t].retc = None

\* C14: if the store, unavailable at startup, becomes and stays available
\* while the retry thread has attempts left, then under fair scheduling the
\* status eventually is Ready for good, and from some point on every
\* is_ready() call that returns, returns True, whatever log_prediction()
\* calls run beside it.
C14_ReadyKeepsTrue ==
    <>StoreBackInTime =>
        /\ <>[](initialized /\ pool # None)
        /\ <>[][\A t \in Callers : ~IsReadyReturns(t, "False")]_vars

\* C14, amended: under the same premise the status eventually is Ready for
\* good, and from some point on is_ready() returns False only when its
\* get_connection() found every connection of the pool leased.
C14_Recovery ==
    <>StoreBackInTime =>
        /\ <>[](initialized /\ pool # None)
        /\ <>[][\A t \in Callers :
                  /\ IsReadyReturns(t, "False") => pc[t] = "ir_conn"
                  /\ LeaseFails(t) => (pool # None /\ used[pool] = MaxConn)]_vars

\* C14 witness: the retry thread recovered the pool on its last attempt and
\* ended, and an is_ready() call returned True
C14_Witness ==
    /\ storeUp /\ initialized /\ pool # None
    /\ pc[Retry] = "br_done" /\ retry_count = max_retries
    /\ \E t \in Callers : call[t] = [op |-> "is_ready", val |-> "True"]

\* C15: is_ready() is observational: a thread inside is_ready() never runs
\* _create_pool (which writes _pool and _initialized) and never calls
\* initialize() (which writes _init_attempted); it only leases, runs the
\* liveness statement and releases.
C15_IsReadyObservational ==
    \A t \in Callers :
        (call[t].op = "is_ready" /\ call[t].val = "pending")
            => /\ ~InCreatePool(t)
               /\ pc[t] \notin {"in_lock", "in_after", "it_conn", "it_rel"}

\* C16: with the pool not Ready and no retry in flight, a get_connection()
\* whose one lazy attempt succeeded installs the pool, runs _init_table and
\* returns a connection: during its _init_table it does not come back to
\* line 190 for a second attempt (it holds _lock there), and when it leaves
\* the with block the pool it installed is in place and the status Ready,
\* so that line 195 goes on to lease.
C16_LazyAttempt ==
    \A t \in Callers :
        pc[Retry] \in {"br_none", "br_done"} =>
            /\ "gc_unlock" \in Range(stack[t]) => pc[t] # "gc_lock"
            /\ pc[t] = "gc_unlock" => (initialized /\ pool # None)

\* C17: after close() has closed the pool, get_connection() hands out no
\* connection any more: every pass through line 197 after a closeall()
\* returns None.
C17_NoLeaseAfterClose ==
    [][\A t \in Threads :
         ((\E p \in Pools : closed[p]) /\ pc[t] = "gc_197" /\ pc'[t] # "gc_197")
            => loc'[t].retc = None]_vars

C19_ReleasedToItsPool ==
    \A t \in Threads :
        /\ loc[t].retc # None => pool = loc[t].retc
        /\ loc[t].conn # None => pool = loc[t].conn
        /\ loc[t].tconn # None => pool = loc[t].tconn

\* C20: in every state another thread can observe, _initialized true implies
\* that _pool holds a pool object.
C20_ReadyHasPool == initialized => pool # None

====
